---- MODULE Spec2Model ----
(***************************************************************************)
(* The bridge job registry and its three HTTP handlers (submit, get,       *)
(* execute) of zkchan-backend.                                             *)
(*                                                                         *)
(* Two code shapes exist.  variant "A" is src/server.js.  variant "B" is   *)
(* src/src/server.js; src/unnamed/part_000 is the same program as a        *)
(* CommonJS file (it differs in imports, comments, one log line and an     *)
(* `async` on a handler that never awaits), so "B" stands for both.        *)
(*                                                                         *)
(* Node runs handlers on one thread: a handler runs without interruption   *)
(* up to its next `await`.  Each action below is one such segment.         *)
(*                                                                         *)
(* Calls into the ethers library (constructors, parseUnits,                *)
(* sendTransaction, tx.wait) are the environment: each either returns or   *)
(* throws an Error, which has a name and a message.  uuidv4() is taken to  *)
(* return an identifier not in use.  A timestamp is the clock reading it   *)
(* was formatted from.                                                     *)
(***************************************************************************)
EXTENDS Integers, Sequences, FiniteSets, TLC

\* ---------------------------------------------------------------- bounds
MaxJobs  == 2      \* identifiers uuidv4 can hand out
MaxClock == 1      \* readings of the clock
MaxCalls == 2      \* execute invocations that reach an await

\* ------------------------------------------------------- JavaScript values
\* A JSON value of a request body: undefined (key absent), null, a number
\* (integers here), a string (a sequence of one-character strings) or a
\* plain object. Of an object only the set `own` matters here: which of the
\* names toString and valueOf it has as properties of its own. A property
\* parsed from JSON is never a function, so such a property hides the
\* inherited method behind a value that cannot be called.
Undefined == [t |-> "undefined"]
JsNull    == [t |-> "null"]
Num(n)    == [t |-> "number", n |-> n]
Str(s)    == [t |-> "string", s |-> s]
Obj(own)  == [t |-> "object", own |-> own]

\* the value of a job field that holds JavaScript null
Null == "null"

\* ToBoolean, as used by `!amount`, `!receiver`, `!depositSignature`, `x || y`
Truthy(v) ==
    CASE v.t = "undefined" -> FALSE
      [] v.t = "null"      -> FALSE
      [] v.t = "number"    -> v.n # 0
      [] v.t = "string"    -> Len(v.s) > 0
      [] v.t = "object"    -> TRUE

\* Number(v) and String(v) throw a TypeError: converting an object tries
\* valueOf and toString. The inherited valueOf gives back the object itself
\* and one of its own cannot be called, so only the inherited toString can
\* yield a primitive; when a property of its own hides it, nothing does.
ToPrimitiveThrows(v) == v.t = "object" /\ "toString" \in v.own

\* what the inherited toString makes of a plain object
ObjectString ==
    <<"[", "o", "b", "j", "e", "c", "t", " ", "O", "b", "j", "e", "c", "t",
      "]">>

\* A character is a one-character string; a character that cannot be written
\* in a string here stands as its code point ("U+00A0").
\* WhiteSpace and LineTerminator: what trim() and Number() strip
WhiteSpace ==
    {"\t", "\n", "U+000B", "\f", "\r", " ", "U+00A0", "U+1680",
     "U+2000", "U+2001", "U+2002", "U+2003", "U+2004", "U+2005", "U+2006",
     "U+2007", "U+2008", "U+2009", "U+200A", "U+2028", "U+2029", "U+202F",
     "U+205F", "U+3000", "U+FEFF"}

Digits == {"0", "1", "2", "3", "4", "5", "6", "7", "8", "9"}

DigitVal(c) ==
    CASE c = "0" -> 0 [] c = "1" -> 1 [] c = "2" -> 2 [] c = "3" -> 3
      [] c = "4" -> 4 [] c = "5" -> 5 [] c = "6" -> 6 [] c = "7" -> 7
      [] c = "8" -> 8 [] c = "9" -> 9

DigitChar(d) == <<"0", "1", "2", "3", "4", "5", "6", "7", "8", "9">>[d + 1]

RECURSIVE TrimStart(_)
TrimStart(s) ==
    IF s # <<>> /\ Head(s) \in WhiteSpace THEN TrimStart(Tail(s)) ELSE s

RECURSIVE TrimEnd(_)
TrimEnd(s) ==
    IF s # <<>> /\ s[Len(s)] \in WhiteSpace
    THEN TrimEnd(SubSeq(s, 1, Len(s) - 1)) ELSE s

\* String.prototype.trim
Trim(s) == TrimEnd(TrimStart(s))

RECURSIVE DigitsValue(_)
DigitsValue(s) ==
    IF s = <<>> THEN 0
    ELSE 10 * DigitsValue(SubSeq(s, 1, Len(s) - 1)) + DigitVal(s[Len(s)])

RECURSIVE Pow10(_)
Pow10(k) == IF k = 0 THEN 1 ELSE 10 * Pow10(k - 1)

\* the digits of the bases 2, 8 and 16, in order of value
RadixDigits ==
    <<"0", "1", "2", "3", "4", "5", "6", "7", "8", "9",
      "a", "b", "c", "d", "e", "f">>

RadixDigitsUpper ==
    <<"0", "1", "2", "3", "4", "5", "6", "7", "8", "9",
      "A", "B", "C", "D", "E", "F">>

RadixVal(c) ==
    (CHOOSE i \in DOMAIN RadixDigits :
         c \in {RadixDigits[i], RadixDigitsUpper[i]}) - 1

IsRadixDigit(c, base) ==
    \E i \in 1..base : c \in {RadixDigits[i], RadixDigitsUpper[i]}

RECURSIVE RadixValue(_, _)
RadixValue(s, base) ==
    IF s = <<>> THEN 0
    ELSE base * RadixValue(SubSeq(s, 1, Len(s) - 1), base)
           + RadixVal(s[Len(s)])

\* A JavaScript number: NaN, +Infinity or -Infinity (num is the sign), or
\* num * 10^exp.
NaN == [nan |-> TRUE, inf |-> FALSE, num |-> 0, exp |-> 0]
Inf(sign) == [nan |-> FALSE, inf |-> TRUE, num |-> sign, exp |-> 0]
Dec(n, e) == [nan |-> FALSE, inf |-> FALSE, num |-> n, exp |-> e]

\* the range of a double, in decimal: 10^DoubleMaxExp10 * 1.79769313... is
\* the least magnitude that rounds to Infinity, 10^DoubleMinExp10 *
\* 2.47032822... the greatest that rounds to zero
DoubleMaxExp10 == 308
DoubleMaxLead9 == 179769314
DoubleMinExp10 == 0 - 324
DoubleMinLead9 == 247032822

RECURSIVE NumDigits(_)
NumDigits(n) == IF n < 10 THEN 1 ELSE 1 + NumDigits(n \div 10)

\* the double nearest to sign * mag * 10^e, as far as zero, the sign and
\* the infinities go (mag of at most nine digits): what lies beyond the
\* range of a double is rounded to Infinity or to zero
RoundDouble(sign, mag, e) ==
    IF mag = 0 THEN Dec(0, 0)
    ELSE LET k     == NumDigits(mag)
             sci   == k - 1 + e
             lead9 == mag * Pow10(9 - k)
         IN  IF sci > DoubleMaxExp10
                \/ (sci = DoubleMaxExp10 /\ lead9 >= DoubleMaxLead9)
             THEN Inf(sign)
             ELSE IF sci < DoubleMinExp10
                \/ (sci = DoubleMinExp10 /\ lead9 <= DoubleMinLead9)
             THEN Dec(0, 0)
             ELSE Dec(sign * mag, e)

\* zeros at the end of a fraction, which do not change its value
RECURSIVE StripZeros(_)
StripZeros(s) ==
    IF s # <<>> /\ s[Len(s)] = "0"
    THEN StripZeros(SubSeq(s, 1, Len(s) - 1)) ELSE s

AllDigits(s) == \A i \in 1..Len(s) : s[i] \in Digits

\* the least index of s holding a character of set, or Len(s) + 1
FirstIn(s, set) ==
    LET at == {i \in 1..Len(s) : s[i] \in set}
    IN  IF at = {} THEN Len(s) + 1
        ELSE CHOOSE i \in at : \A k \in at : i <= k

\* StrUnsignedDecimalLiteral other than Infinity: digits [. digits] or
\* . digits, then an optional exponent e|E [+|-] digits
UnsignedDecimal(sign, u) ==
    LET ePos  == FirstIn(u, {"e", "E"})
        mant  == SubSeq(u, 1, ePos - 1)
        ex    == SubSeq(u, ePos + 1, Len(u))
        exNeg == ex # <<>> /\ Head(ex) = "-"
        exDig == IF ex # <<>> /\ Head(ex) \in {"+", "-"} THEN Tail(ex)
                 ELSE ex
        dot   == FirstIn(mant, {"."})
        whole == SubSeq(mant, 1, dot - 1)
        frac  == SubSeq(mant, dot + 1, Len(mant))
        ok    == /\ AllDigits(whole) /\ AllDigits(frac)
                 /\ Len(whole) + Len(frac) > 0
                 /\ ePos <= Len(u) => (exDig # <<>> /\ AllDigits(exDig))
        digs  == whole \o StripZeros(frac)
        expo  == IF ePos > Len(u) THEN 0
                 ELSE IF exNeg THEN 0 - DigitsValue(exDig)
                 ELSE DigitsValue(exDig)
    IN  IF ~ok THEN NaN
        ELSE RoundDouble(sign, DigitsValue(digs),
                         expo - Len(StripZeros(frac)))

\* StringToNumber: white space is stripped and "" is 0; then a binary,
\* octal or hexadecimal integer without a sign, or a decimal literal with an
\* optional sign, which may be Infinity; anything else is NaN
StringToNumber(s) ==
    LET t      == Trim(s)
        signed == t # <<>> /\ Head(t) \in {"+", "-"}
        sign   == IF t # <<>> /\ Head(t) = "-" THEN 0 - 1 ELSE 1
        u      == IF signed THEN Tail(t) ELSE t
        base   == IF Len(t) < 2 \/ t[1] # "0" THEN 0
                  ELSE IF t[2] \in {"x", "X"} THEN 16
                  ELSE IF t[2] \in {"o", "O"} THEN 8
                  ELSE IF t[2] \in {"b", "B"} THEN 2
                  ELSE 0
        body   == SubSeq(t, 3, Len(t))
    IN  IF t = <<>> THEN Dec(0, 0)
        ELSE IF base # 0
        THEN IF body # <<>>
                /\ \A i \in 1..Len(body) : IsRadixDigit(body[i], base)
             THEN Dec(RadixValue(body, base), 0)
             ELSE NaN
        ELSE IF u = <<"I", "n", "f", "i", "n", "i", "t", "y">>
        THEN Inf(sign)
        ELSE UnsignedDecimal(sign, u)

\* Number(v), for a v whose conversion does not throw
ToNumber(v) ==
    CASE v.t = "undefined" -> NaN
      [] v.t = "null"      -> Dec(0, 0)
      [] v.t = "number"    -> Dec(v.n, 0)
      [] v.t = "string"    -> StringToNumber(v.s)
      [] v.t = "object"    -> StringToNumber(ObjectString)

\* x <= 0 on JavaScript numbers: false when x is NaN
LeqZero(x) == ~x.nan /\ x.num <= 0

RECURSIVE NatToString(_)
NatToString(n) ==
    IF n < 10 THEN <<DigitChar(n)>>
    ELSE NatToString(n \div 10) \o <<DigitChar(n % 10)>>

\* String(v), for a v whose conversion does not throw
StringOf(v) ==
    CASE v.t = "undefined" -> <<"u", "n", "d", "e", "f", "i", "n", "e", "d">>
      [] v.t = "null"      -> <<"n", "u", "l", "l">>
      [] v.t = "number"    -> IF v.n < 0 THEN <<"-">> \o NatToString(0 - v.n)
                              ELSE NatToString(v.n)
      [] v.t = "string"    -> v.s
      [] v.t = "object"    -> ObjectString


\* ------------------------------------------------------------ environment
TrueStr == <<"t", "r", "u", "e">>
TrueUpper == <<"T", "R", "U", "E">>

\* String(x).toLowerCase() === "true". toLowerCase turns T, R, U, E into
\* t, r, u, e, leaves these as they are, and turns no other character into
\* one of them (nor into nothing), so the lowered string is "true" exactly
\* when the string spells it letter by letter, each in either case.
LowersToTrue(s) ==
    /\ Len(s) = Len(TrueStr)
    /\ \A i \in 1..Len(s) : s[i] \in {TrueStr[i], TrueUpper[i]}

\* process.env as the handlers read it; an unset variable reads as "".
MkEnv(enable, rpc, key, base) ==
    [ENABLE_EVM_SEND |-> enable, EVM_RPC_URL |-> rpc,
     EVM_PRIVATE_KEY |-> key, EVM_EXPLORER_BASE |-> base]

\* nothing set; sending enabled in upper case; enabled with the endpoint or
\* the key missing; enabled and configured, with an explorer prefix
EnvSet ==
    {MkEnv(<<>>, "", "", ""),
     MkEnv(<<"T", "R", "U", "E">>, "http://rpc", "0xkey", ""),
     MkEnv(TrueStr, "", "0xkey", ""),
     MkEnv(TrueStr, "http://rpc", "", ""),
     MkEnv(TrueStr, "http://rpc", "0xkey", "https://scan/tx/")}

\* what a POST /bridge/submit body may hold
\* {"toString": 1}, which Number() cannot convert, and {"valueOf": 1}, which
\* it converts to NaN
Unconvertible == Obj({"toString"})
PlainObject == Obj({"valueOf"})
AmountInputs ==
    {Undefined, Num(0), Num(-1), Num(2),
     Str(<<" ">>), Str(<<"-", "1", ".", "5">>), Str(<<"a">>),
     Unconvertible, PlainObject}
Receiver == Str(<<"0", "x", "A">>)
Signature == Str(<<"s", "i", "g">>)
ReceiverInputs == {Undefined, Receiver}
SignatureInputs == {Str(<<>>), Signature}

\* the request bodies tried: an amount of each kind that is there with the
\* other fields present, a positive amount with each combination of the
\* other fields, a missing, a negative and an unconvertible amount with
\* nothing else right, and an amount that is no number with one of the
\* other fields missing
Bodies ==
    {b \in [amount : AmountInputs, receiver : ReceiverInputs,
            depositSignature : SignatureInputs] :
        \/ b.amount \in {Num(0), Str(<<" ">>),
                          Str(<<"-", "1", ".", "5">>), Str(<<"a">>)}
             /\ b.receiver = Receiver /\ b.depositSignature = Signature
        \/ b.amount = Num(2)
        \/ b.amount \in {Undefined, Num(-1), Unconvertible}
             /\ b.receiver = Undefined /\ b.depositSignature = Str(<<>>)
        \/ b.amount = Str(<<"a">>)
             /\ (b.receiver = Undefined) # (b.depositSignature = Str(<<>>))
        \/ b.amount = PlainObject
             /\ b.receiver = Undefined /\ b.depositSignature = Signature}

\* what the chain library may hand back: the hash of the transaction that
\* the c-th suspended invocation broadcast, and the Error of a failed call:
\* one with a message, one with none
TxHash(c) == "0xa" \o <<"1", "2", "3", "4">>[c]
Errors ==
    {[name |-> "Error", message |-> "insufficient funds"],
     [name |-> "TypeError", message |-> ""]}

JobIds == 1..MaxJobs

\* The registry is a plain object, so jobs[id] also finds what every object
\* inherits. The identifiers a request may name are those uuidv4 hands out
\* and, numbered after them, names of inherited properties; the one tried
\* is a function, as are toString, valueOf, hasOwnProperty and the others.
InheritedKeys == <<"constructor">>
RequestIds == 1..(MaxJobs + Len(InheritedKeys))

\* the object jobs[id] finds for an inherited name: it has no job field
InheritedValue(id) == [inherited |-> InheritedKeys[id - MaxJobs]]

\* jobs[id] is truthy: `!job` is false
Found(js, id) == id \in DOMAIN js \/ id \in RequestIds \ JobIds

\* ${job.status} of a job found
StatusText(js, id) ==
    IF id \in DOMAIN js /\ "status" \in DOMAIN js[id] THEN js[id].status
    ELSE "undefined"

VARIABLES
    variant,   \* which server file runs: "A" or "B"
    env,       \* process.env
    jobs,      \* the registry: job id -> job record
    now,       \* the clock
    calls,     \* execute invocations suspended at an await, in arrival order
    last,      \* the handler segment that ran last and the response it sent
    sent,      \* job id -> number of wallet.sendTransaction calls issued
    passed,    \* job id -> number of execute invocations past the status check
    hist,      \* job id -> the statuses stored in the record, in order
    answered   \* job id -> responses sent by invocations past the check

vars == <<variant, env, jobs, now, calls, last, sent, passed, hist, answered>>

\* ----------------------------------------------------------- job registry
\* Object.assign(target, source)
Assign(target, source) ==
    [k \in DOMAIN target \cup DOMAIN source |->
        IF k \in DOMAIN source THEN source[k] ELSE target[k]]

\* a faulty createJob: the new job replaces the registry
createJobAlone(js, id, payload, t) ==
    (id :> [id |-> id, status |-> "pending", createdAt |-> t,
            updatedAt |-> t, request |-> payload, simulated |-> FALSE,
            txHash |-> Null, explorerUrl |-> Null, errorMessage |-> Null])

\* createJob of src/server.js: the registry after it
createJob(js, id, payload, t) ==
    js @@ (id :> [id |-> id, status |-> "pending", createdAt |-> t,
                  updatedAt |-> t, request |-> payload, simulated |-> FALSE,
                  txHash |-> Null, explorerUrl |-> Null,
                  errorMessage |-> Null])

\* createJob of src/src/server.js
createJobB(js, id, payload, t) ==
    js @@ (id :> [id |-> id, status |-> "pending", createdAt |-> t,
                  updatedAt |-> t, request |-> payload])

\* a faulty updateJob: createdAt is stamped along with updatedAt
updateJobStampCreated(js, id, updates, t) ==
    IF id \notin DOMAIN js THEN js
    ELSE [js EXCEPT ![id] = Assign(Assign(@, updates),
                                   [createdAt |-> t, updatedAt |-> t])]

\* updateJob: what jobs[id] finds after it. Nothing changes when jobs[id]
\* finds nothing; the fields assigned to an inherited object are kept under
\* its name.
updateJob(js, id, updates, t) ==
    IF ~Found(js, id) THEN js
    ELSE IF id \in DOMAIN js
    THEN [js EXCEPT ![id] = Assign(Assign(@, updates), [updatedAt |-> t])]
    ELSE js @@ (id :> Assign(updates, [updatedAt |-> t]))

\* the statuses written to a job, kept beside the registry
logStatus(h, js, id, updates) ==
    IF id \in DOMAIN js /\ "status" \in DOMAIN updates
    THEN [h EXCEPT ![id] = Append(@, updates.status)] ELSE h

\* a faulty getEvmConfig: sending is on unless the flag says "false"
getEvmConfigDefaultOn(e) ==
    [rpcUrl       |-> e.EVM_RPC_URL,
     privateKey   |-> e.EVM_PRIVATE_KEY,
     enableSend   |-> e.ENABLE_EVM_SEND # <<"f", "a", "l", "s", "e">>,
     explorerBase |-> e.EVM_EXPLORER_BASE]

\* getEvmConfig (decimals is only handed to parseUnits and is left out)
getEvmConfig(e) ==
    [rpcUrl       |-> e.EVM_RPC_URL,
     privateKey   |-> e.EVM_PRIVATE_KEY,
     enableSend   |-> LowersToTrue(e.ENABLE_EVM_SEND),
     explorerBase |-> e.EVM_EXPLORER_BASE]

\* a faulty requireEnv: a missing variable is handed on as ""
requireEnvLax(e, name, msg) == [threw |-> FALSE, val |-> e[name]]

\* requireEnv: the value, or the Error it throws, whose message is msg or,
\* when msg is empty, names the variable
requireEnv(e, name, msg) ==
    IF e[name] = ""
    THEN [threw |-> TRUE,
          err |-> [name |-> "Error",
                   message |-> IF msg # "" THEN msg
                               ELSE "Missing env var: " \o name]]
    ELSE [threw |-> FALSE, val |-> e[name]]

\* a faulty ErrText: the text of the response instead of the exception's
ErrTextGeneric(err) == "Failed to execute EVM payout"

\* err.message || String(err): String of an Error with no message is its
\* name
ErrText(err) ==
    IF err.message # "" THEN err.message ELSE err.name

\* ------------------------------------------------------------- responses
NoBody == [none |-> TRUE]

\* what the last handler segment was given and what it answered: op is the
\* route, phase is "request" for an arriving request and "resolved" or
\* "rejected" for the end of an await, input is the request body or the
\* Error the await rejected with, code is the HTTP status (0: none sent yet)
Resp(op, phase, id, input, code, body) ==
    [op |-> op, phase |-> phase, id |-> id, input |-> input,
     code |-> code, body |-> body]

Init ==
    /\ variant \in {"A", "B"}
    /\ env \in EnvSet
    /\ jobs = <<>>
    /\ now = 0
    /\ calls = <<>>
    /\ last = [op |-> "none", phase |-> "none", id |-> 0, input |-> NoBody,
               code |-> 0, body |-> NoBody]
    /\ sent = [j \in JobIds |-> 0]
    /\ passed = [j \in JobIds |-> 0]
    /\ hist = [j \in JobIds |-> <<>>]
    /\ answered = [j \in JobIds |-> 0]

\* the clock moves on between handler segments
Tick ==
    /\ now < MaxClock
    /\ now' = now + 1
    /\ UNCHANGED <<variant, env, jobs, calls, last, sent, passed, hist,
                   answered>>

\* a faulty SubmitError: the receiver check is left out
SubmitErrorNoReceiver(body) ==
    IF ~Truthy(body.amount) \/ LeqZero(ToNumber(body.amount))
    THEN "Invalid amount"
    ELSE IF ~Truthy(body.depositSignature)
    THEN "Missing depositSignature from Solana side"
    ELSE ""

\* a faulty SubmitError: the amount check is `< 0`
SubmitErrorStrict(body) ==
    IF ~Truthy(body.amount)
       \/ (~ToNumber(body.amount).nan /\ ToNumber(body.amount).num < 0)
    THEN "Invalid amount"
    ELSE IF ~Truthy(body.receiver) THEN "Missing receiver"
    ELSE IF ~Truthy(body.depositSignature)
    THEN "Missing depositSignature from Solana side"
    ELSE ""

\* the three checks of POST /bridge/submit, for a body whose amount
\* converts: the error message, or ""
SubmitError(body) ==
    IF ~Truthy(body.amount) \/ LeqZero(ToNumber(body.amount))
    THEN "Invalid amount"
    ELSE IF ~Truthy(body.receiver) THEN "Missing receiver"
    ELSE IF ~Truthy(body.depositSignature)
    THEN "Missing depositSignature from Solana side"
    ELSE ""

\* POST /bridge/submit. The handler is one try block: `!amount` is tried
\* first and Number(amount) only for an amount that is not falsy; when that
\* conversion throws, the catch answers 500 and nothing is stored.
Submit(body) ==
    /\ UNCHANGED <<variant, env, now, calls, sent, passed, answered>>
    /\ IF Truthy(body.amount) /\ ToPrimitiveThrows(body.amount)
       THEN /\ last' = Resp("submit", "request", 0, body, 500,
                            [error |-> "Internal error submitting bridge job"])
            /\ UNCHANGED <<jobs, hist>>
       ELSE IF SubmitError(body) # ""
       THEN /\ last' = Resp("submit", "request", 0, body, 400,
                            [error |-> SubmitError(body)])
            /\ UNCHANGED <<jobs, hist>>
       ELSE \E id \in JobIds \ DOMAIN jobs :
            /\ jobs' = IF variant = "A" THEN createJob(jobs, id, body, now)
                       ELSE createJobB(jobs, id, body, now)
            /\ hist' = [hist EXCEPT ![id] = <<"pending">>]
            /\ last' = Resp("submit", "request", id, body, 200,
                            [jobId |-> jobs'[id].id,
                             status |-> jobs'[id].status])

\* a faulty Get: the lookup goes through updateJob with no fields
GetTouching(id) ==
    /\ UNCHANGED <<variant, env, now, calls, sent, passed, hist, answered>>
    /\ jobs' = IF id \in DOMAIN jobs
               THEN updateJob(jobs, id, [k \in {} |-> Null], now)
               ELSE jobs
    /\ last' = IF ~Found(jobs, id)
               THEN Resp("get", "request", id, NoBody, 404,
                         [error |-> "Job not found"])
               ELSE IF id \in DOMAIN jobs
               THEN Resp("get", "request", id, NoBody, 200, jobs'[id])
               ELSE Resp("get", "request", id, NoBody, 200,
                         InheritedValue(id))

\* GET /bridge/job/:id
Get(id) ==
    /\ UNCHANGED <<variant, env, jobs, now, calls, sent, passed, hist,
                   answered>>
    /\ last' = IF ~Found(jobs, id)
               THEN Resp("get", "request", id, NoBody, 404,
                         [error |-> "Job not found"])
               ELSE IF id \in DOMAIN jobs
               THEN Resp("get", "request", id, NoBody, 200, jobs[id])
               ELSE Resp("get", "request", id, NoBody, 200,
                         InheritedValue(id))

\* a faulty Executable: a job still executing is acted on again
ExecutableWhileRunning(job) == job.status \in {"pending", "executing"}

\* a faulty Executable: only a completed job is refused
ExecutableUnlessCompleted(job) == job.status # "completed"

\* the status check of the execute handler: only a pending job is acted on
Executable(job) == job.status = "pending"

\* String(job.request.amount || "").trim() of src/server.js
AmountStr(request) ==
    Trim(StringOf(IF Truthy(request.amount) THEN request.amount
                  ELSE Str(<<>>)))

\* the body src/server.js sends with a failed job
FailBody(job) ==
    [jobId |-> job.id, status |-> job.status, simulated |-> job.simulated,
     error |-> job.errorMessage]

\* explorerUrl of src/server.js: the configured prefix and the hash, or null
ExplorerUrl(cfg, hash) ==
    IF cfg.explorerBase # "" THEN cfg.explorerBase \o hash ELSE Null

\* a response goes out from an invocation that got past the status check
Answered(id) == answered' = [answered EXCEPT ![id] = @ + 1]

\* one updateJob call at the current time
Update(id, u) ==
    /\ jobs' = updateJob(jobs, id, u, now)
    /\ hist' = logStatus(hist, jobs, id, u)

\* a faulty Update2: the first of the two updates is skipped
Update2Last(id, u1, u2) ==
    /\ jobs' = updateJob(jobs, id, u2, now)
    /\ hist' = logStatus(hist, jobs, id, u2)

\* two updateJob calls in a row, without an await between them
Update2(id, u1, u2) ==
    /\ jobs' = updateJob(updateJob(jobs, id, u1, now), id, u2, now)
    /\ hist' = logStatus(logStatus(hist, jobs, id, u1), jobs, id, u2)

\* the execute handler suspends at `await wallet.sendTransaction(...)`
Suspend(id) ==
    /\ Len(calls) < MaxCalls
    /\ calls' = Append(calls, [jobId |-> id, pc |-> "sendTransaction",
                               tx |-> Null, explorerUrl |-> Null])
    /\ sent' = [sent EXCEPT ![id] = @ + 1]
    /\ last' = Resp("execute", "request", id, NoBody, 0, NoBody)
    /\ UNCHANGED answered

\* a faulty Refuse: the refusal goes through updateJob with no fields
RefuseTouching(id) ==
    /\ IF id \in DOMAIN jobs THEN ~Executable(jobs[id]) ELSE TRUE
    /\ last' = IF ~Found(jobs, id)
               THEN Resp("execute", "request", id, NoBody, 404,
                         [error |-> "Job not found"])
               ELSE Resp("execute", "request", id, NoBody, 400,
                         [error |-> "Job is already " \o StatusText(jobs, id)
                                    \o ", cannot execute."])
    /\ jobs' = IF id \in DOMAIN jobs
               THEN updateJob(jobs, id, [k \in {} |-> Null], now)
               ELSE jobs
    /\ UNCHANGED <<hist, calls, sent, passed, answered>>

\* the 404 and 400 answers of the execute handler, before it acts: what
\* jobs[id] finds for an inherited name has no status, so it is not pending
Refuse(id) ==
    /\ IF id \in DOMAIN jobs THEN ~Executable(jobs[id]) ELSE TRUE
    /\ last' = IF ~Found(jobs, id)
               THEN Resp("execute", "request", id, NoBody, 404,
                         [error |-> "Job not found"])
               ELSE Resp("execute", "request", id, NoBody, 400,
                         [error |-> "Job is already " \o StatusText(jobs, id)
                                    \o ", cannot execute."])
    /\ UNCHANGED <<jobs, hist, calls, sent, passed, answered>>

\* a faulty SimulatedUpdate: the simulated flag is not stored
SimulatedUpdateNoFlag == [status |-> "completed"]

\* the fields src/server.js stores when it completes a job without sending
SimulatedUpdate == [status |-> "completed", simulated |-> TRUE]

\* a faulty CatchA: the catch block answers and stores nothing
CatchAOnlyResponds(id, err) ==
    /\ UNCHANGED <<jobs, hist>>
    /\ last' = Resp("execute", "request", id, NoBody, 500,
                    [error |-> ErrText(err)])

\* the catch block of src/server.js, the job still as the handler found it
CatchA(id, err) ==
    /\ Update(id, [status |-> "failed", simulated |-> FALSE,
                   errorMessage |-> ErrText(err)])
    /\ last' = Resp("execute", "request", id, NoBody, 500,
                    FailBody(jobs'[id]))

\* POST /bridge/job/:id/execute of src/server.js, up to its first await
ExecuteA(id) ==
    /\ variant = "A"
    /\ UNCHANGED <<variant, env, now>>
    /\ \/ Refuse(id)
       \/ /\ id \in DOMAIN jobs
          /\ Executable(jobs[id])
          /\ passed' = [passed EXCEPT ![id] = @ + 1]
          /\ LET cfg == getEvmConfig(env)
                 amountStr == AmountStr(jobs[id].request)
                 receiver == jobs[id].request.receiver
             IN  IF amountStr = <<>>
                 THEN /\ Update(id, [status |-> "failed", errorMessage |->
                                       "Missing amount in job payload"])
                      /\ last' = Resp("execute", "request", id, NoBody, 400,
                                      FailBody(jobs'[id]))
                      /\ UNCHANGED <<calls, sent>>
                      /\ Answered(id)
                 ELSE IF ~Truthy(receiver)
                 THEN /\ Update(id, [status |-> "failed", errorMessage |->
                                       "Missing receiver in job payload"])
                      /\ last' = Resp("execute", "request", id, NoBody, 400,
                                      FailBody(jobs'[id]))
                      /\ UNCHANGED <<calls, sent>>
                      /\ Answered(id)
                 ELSE IF ~cfg.enableSend
                 THEN /\ Update(id, SimulatedUpdate)
                      /\ last' = Resp("execute", "request", id, NoBody, 200,
                                      [jobId |-> jobs'[id].id,
                                       status |-> jobs'[id].status,
                                       simulated |-> TRUE])
                      /\ UNCHANGED <<calls, sent>>
                      /\ Answered(id)
                 ELSE IF cfg.rpcUrl = "" \/ cfg.privateKey = ""
                 THEN /\ Update(id, [status |-> "failed", errorMessage |->
                             "EVM_RPC_URL or EVM_PRIVATE_KEY not configured"])
                      /\ last' = Resp("execute", "request", id, NoBody, 500,
                                      FailBody(jobs'[id]))
                      /\ UNCHANGED <<calls, sent>>
                      /\ Answered(id)
                 ELSE \/ \E err \in Errors :
                            \* provider, wallet or parseUnits throws
                            /\ CatchA(id, err)
                            /\ UNCHANGED <<calls, sent>>
                            /\ Answered(id)
                      \/ /\ Update(id, [status |-> "executing"])
                         /\ Suspend(id)

\* a faulty SendResolvesA: the hash is stored as soon as the send returns
SendResolvesAEager(c) ==
    /\ variant = "A"
    /\ calls[c].pc = "sendTransaction"
    /\ calls' = [calls EXCEPT ![c] =
                    [@ EXCEPT !.pc = "wait", !.tx = TxHash(c),
                              !.explorerUrl =
                                  ExplorerUrl(getEvmConfig(env), TxHash(c))]]
    /\ Update(calls[c].jobId, [txHash |-> TxHash(c)])
    /\ last' = Resp("execute", "resolved", calls[c].jobId, NoBody, 0, NoBody)
    /\ UNCHANGED <<variant, env, now, sent, passed, answered>>

\* wallet.sendTransaction resolves in src/server.js: on to `await tx.wait(1)`
SendResolvesA(c) ==
    /\ variant = "A"
    /\ calls[c].pc = "sendTransaction"
    /\ calls' = [calls EXCEPT ![c] =
                    [@ EXCEPT !.pc = "wait", !.tx = TxHash(c),
                              !.explorerUrl =
                                  ExplorerUrl(getEvmConfig(env), TxHash(c))]]
    /\ last' = Resp("execute", "resolved", calls[c].jobId, NoBody, 0, NoBody)
    /\ UNCHANGED <<variant, env, jobs, now, sent, passed, hist, answered>>

\* an await of src/server.js rejects: the catch block
RejectsA(c, err) ==
    /\ variant = "A"
    /\ calls[c].pc \in {"sendTransaction", "wait"}
    /\ Update(calls[c].jobId, [status |-> "failed", simulated |-> FALSE,
                               errorMessage |-> ErrText(err)])
    /\ calls' = [calls EXCEPT ![c].pc = "done"]
    /\ last' = Resp("execute", "rejected", calls[c].jobId, err, 500,
                    FailBody(jobs'[calls[c].jobId]))
    /\ Answered(calls[c].jobId)
    /\ UNCHANGED <<variant, env, now, sent, passed>>

\* tx.wait(1) resolves in src/server.js
WaitResolvesA(c) ==
    /\ variant = "A"
    /\ calls[c].pc = "wait"
    /\ Update(calls[c].jobId,
              [status |-> "completed", simulated |-> FALSE,
               txHash |-> calls[c].tx, explorerUrl |-> calls[c].explorerUrl,
               errorMessage |-> Null])
    /\ calls' = [calls EXCEPT ![c].pc = "done"]
    /\ last' = LET updated == jobs'[calls[c].jobId]
               IN  Resp("execute", "resolved", calls[c].jobId, NoBody, 200,
                        [jobId |-> updated.id, status |-> updated.status,
                         simulated |-> FALSE, txHash |-> updated.txHash,
                         explorerUrl |-> updated.explorerUrl])
    /\ Answered(calls[c].jobId)
    /\ UNCHANGED <<variant, env, now, sent, passed>>

\* what src/src/server.js throws between its try and its await: the first
\* requireEnv that fails, else whatever the chain library may throw
ThrownB(e) ==
    LET rpc == requireEnv(e, "EVM_RPC_URL",
                   "EVM_RPC_URL is required when ENABLE_EVM_SEND=true")
        pk  == requireEnv(e, "EVM_PRIVATE_KEY",
                   "EVM_PRIVATE_KEY is required when ENABLE_EVM_SEND=true")
    IN  IF rpc.threw THEN {rpc.err}
        ELSE IF pk.threw THEN {pk.err}
        ELSE Errors

\* the body src/src/server.js sends from its catch block
FailBodyB == [error |-> "Failed to execute EVM payout"]

\* POST /bridge/job/:id/execute of src/src/server.js, up to its await
ExecuteB(id) ==
    /\ variant = "B"
    /\ UNCHANGED <<variant, env, now>>
    /\ \/ Refuse(id)
       \/ /\ id \in DOMAIN jobs
          /\ Executable(jobs[id])
          /\ passed' = [passed EXCEPT ![id] = @ + 1]
          /\ IF env.ENABLE_EVM_SEND # TrueStr
             THEN /\ Update2(id, [status |-> "executing"],
                                 [status |-> "completed"])
                  /\ last' = Resp("execute", "request", id, NoBody, 200,
                                  [jobId |-> id, status |-> "completed",
                                   simulated |-> TRUE])
                  /\ UNCHANGED <<calls, sent>>
                  /\ Answered(id)
             ELSE \/ \E err \in ThrownB(env) :
                        /\ Update2(id, [status |-> "executing"],
                                   [status |-> "failed",
                                    errorMessage |-> ErrText(err)])
                        /\ last' = Resp("execute", "request", id, NoBody, 500,
                                        FailBodyB)
                        /\ UNCHANGED <<calls, sent>>
                        /\ Answered(id)
                  \/ /\ ~requireEnv(env, "EVM_RPC_URL", "").threw
                     /\ ~requireEnv(env, "EVM_PRIVATE_KEY", "").threw
                     /\ Update(id, [status |-> "executing"])
                     /\ Suspend(id)

\* wallet.sendTransaction resolves in src/src/server.js
SendResolvesB(c) ==
    /\ variant = "B"
    /\ calls[c].pc = "sendTransaction"
    /\ Update(calls[c].jobId,
              [status |-> "completed", evmTxHash |-> TxHash(c)])
    /\ calls' = [calls EXCEPT ![c] =
                    [@ EXCEPT !.pc = "done", !.tx = TxHash(c)]]
    /\ last' = Resp("execute", "resolved", calls[c].jobId, NoBody, 200,
                    [jobId |-> calls[c].jobId, status |-> "completed",
                     evmTxHash |-> TxHash(c), simulated |-> FALSE])
    /\ Answered(calls[c].jobId)
    /\ UNCHANGED <<variant, env, now, sent, passed>>

\* wallet.sendTransaction rejects in src/src/server.js: the catch block
SendRejectsB(c, err) ==
    /\ variant = "B"
    /\ calls[c].pc = "sendTransaction"
    /\ Update(calls[c].jobId, [status |-> "failed",
                               errorMessage |-> ErrText(err)])
    /\ calls' = [calls EXCEPT ![c].pc = "done"]
    /\ last' = Resp("execute", "rejected", calls[c].jobId, err, 500,
                    FailBodyB)
    /\ Answered(calls[c].jobId)
    /\ UNCHANGED <<variant, env, now, sent, passed>>

Next ==
    \/ Tick
    \/ \E body \in Bodies : Submit(body)
    \/ \E id \in RequestIds : Get(id)
    \/ \E id \in RequestIds : ExecuteA(id)
    \/ \E id \in RequestIds : ExecuteB(id)
    \/ \E c \in DOMAIN calls : SendResolvesA(c)
    \/ \E c \in DOMAIN calls, err \in Errors : RejectsA(c, err)
    \/ \E c \in DOMAIN calls : WaitResolvesA(c)
    \/ \E c \in DOMAIN calls : SendResolvesB(c)
    \/ \E c \in DOMAIN calls, err \in Errors : SendRejectsB(c, err)

Spec == Init /\ [][Next]_vars

\* the outbound call on which suspended invocation c waits returns or throws
Resume(c) ==
    /\ c \in DOMAIN calls
    /\ \/ SendResolvesA(c)
       \/ \E err \in Errors : RejectsA(c, err)
       \/ WaitResolvesA(c)
       \/ SendResolvesB(c)
       \/ \E err \in Errors : SendRejectsB(c, err)

\* the program when every outbound call eventually returns or throws and
\* the continuation of its handler is then run
FairSpec == Spec /\ \A c \in 1..MaxCalls : WF_vars(Resume(c))

\* ------------------------------------------------------------ properties
Terminal == {"completed", "failed"}

Rank(status) ==
    CASE status = "pending" -> 0 [] status = "executing" -> 1
      [] status \in Terminal -> 2

\* this step is a handler segment: it is not a tick of the clock and it
\* changes something (a request repeated with no effect changes nothing)
Handled == now' = now /\ vars' # vars

\* this step is the arrival of an execute request for job j
ExecuteArrives(j) ==
    Handled /\ last'.op = "execute" /\ last'.phase = "request" /\ last'.id = j

\* real sending is enabled, as each file reads ENABLE_EVM_SEND
SendEnabled ==
    IF variant = "A" THEN LowersToTrue(env.ENABLE_EVM_SEND)
    ELSE env.ENABLE_EVM_SEND = TrueStr

Configured == env.EVM_RPC_URL # "" /\ env.EVM_PRIVATE_KEY # ""

\* the transaction hash a job record holds, under either file's field name
StoredHash(job) ==
    IF "evmTxHash" \in DOMAIN job THEN job.evmTxHash
    ELSE IF "txHash" \in DOMAIN job THEN job.txHash
    ELSE Null

\* C1: for every job, at most one execute invocation gets past the status
\* check, and at most one sendTransaction is ever issued (so none is retried).
C1_SingleShot ==
    \A j \in JobIds : passed[j] <= 1 /\ sent[j] <= 1

\* C1 witness: an execute was refused while the one accepted invocation for
\* the same job is suspended at its await, its transaction already issued.
C1_Witness ==
    /\ last.op = "execute" /\ last.phase = "request" /\ last.code = 400
    /\ last.id \in DOMAIN jobs
    /\ jobs[last.id].status = "executing"
    /\ passed[last.id] = 1 /\ sent[last.id] = 1
    /\ \E c \in DOMAIN calls :
           calls[c].jobId = last.id /\ calls[c].pc = "sendTransaction"

\* C2: the statuses written to a job, in order, strictly advance along
\* pending -> executing -> completed|failed; the stored status is the last
\* one written, so a terminal status is never left and pending never returns.
C2_ForwardOnly ==
    \A j \in DOMAIN jobs :
        /\ hist[j] # <<>>
        /\ hist[j][1] = "pending"
        /\ jobs[j].status = hist[j][Len(hist[j])]
        /\ \A i \in 1..(Len(hist[j]) - 1) :
               Rank(hist[j][i]) < Rank(hist[j][i + 1])

\* C2 witness: a job went pending -> executing -> failed and a later execute
\* request on it has been answered.
C2_Witness ==
    /\ last.op = "execute" /\ last.phase = "request"
    /\ last.id \in DOMAIN jobs
    /\ hist[last.id] = <<"pending", "executing", "failed">>

\* C3: an execute request on a job that is not pending is answered 400,
\* changes no job record (updatedAt included) and issues no transaction.
C3_RefusedNoEffect ==
    [][\A j \in DOMAIN jobs :
           (ExecuteArrives(j) /\ jobs[j].status # "pending")
           => (last'.code = 400 /\ jobs' = jobs /\ sent' = sent
               /\ calls' = calls)]_vars

\* C3 witness: a completed job was asked to execute again, later than its
\* last update, and the request was answered 400.
C3_Witness ==
    /\ last.op = "execute" /\ last.phase = "request" /\ last.code = 400
    /\ last.id \in DOMAIN jobs
    /\ jobs[last.id].status = "completed"
    /\ now > jobs[last.id].updatedAt

\* this step is the arrival of a submit request; its body is last'.input
SubmitArrives == Handled /\ last'.op = "submit"

\* a field that is missing: absent or empty
Missing(v) == v \in {Undefined, JsNull, Str(<<>>)}

\* an amount that is missing, zero or negative
NoAmount(a) ==
    Missing(a) \/ (~ToPrimitiveThrows(a) /\ LeqZero(ToNumber(a)))

\* an amount that is a number greater than zero
PositiveAmount(a) ==
    /\ ~Missing(a) /\ ~ToPrimitiveThrows(a)
    /\ ~ToNumber(a).nan /\ ~LeqZero(ToNumber(a))

\* the request is one C4 speaks of
C4_Case(b) ==
    NoAmount(b.amount) \/ Missing(b.receiver) \/ Missing(b.depositSignature)

\* C4 as stated: a submit whose amount is missing, zero or negative, or
\* whose receiver or depositSignature is missing, is answered 400 and leaves
\* the registry exactly as it was.
C4_Original ==
    [][(SubmitArrives /\ C4_Case(last'.input))
       => (last'.code = 400 /\ jobs' = jobs)]_vars

\* C4: a submit whose amount is missing, zero or negative, or whose receiver
\* or depositSignature is missing, leaves the registry exactly as it was; it
\* is answered 400, except that an amount which is an object that Number()
\* cannot convert is answered 500 "Internal error submitting bridge job".
C4_Amended ==
    [][(SubmitArrives /\ C4_Case(last'.input))
       => /\ jobs' = jobs
          /\ IF ToPrimitiveThrows(last'.input.amount)
             THEN /\ last'.code = 500
                  /\ last'.body =
                        [error |-> "Internal error submitting bridge job"]
             ELSE last'.code = 400]_vars

\* C4 witness: while the registry held a job, a submit with no receiver and
\* no depositSignature, whose amount cannot be converted, was answered 500.
C4_Witness ==
    /\ last.op = "submit" /\ last.code = 500
    /\ ToPrimitiveThrows(last.input.amount)
    /\ Missing(last.input.receiver)
    /\ Missing(last.input.depositSignature)
    /\ DOMAIN jobs # {}

\* C5: a submit with a positive amount, a receiver and a depositSignature adds
\* exactly one job under an unused identifier, pending, createdAt = updatedAt,
\* answers 200 with that identifier and `pending`, and leaves the other jobs
\* as they were; a GET of that identifier issued next returns it, pending.
C5_ValidSubmit ==
    [][/\ (SubmitArrives /\ last'.input.amount = Num(2)
               /\ ~Missing(last'.input.receiver)
               /\ ~Missing(last'.input.depositSignature))
          => \E id \in JobIds \ DOMAIN jobs :
                    /\ DOMAIN jobs' = DOMAIN jobs \cup {id}
                    /\ \A k \in DOMAIN jobs : jobs'[k] = jobs[k]
                    /\ jobs'[id].id = id
                    /\ jobs'[id].status = "pending"
                    /\ jobs'[id].createdAt = jobs'[id].updatedAt
                    /\ jobs'[id].request = last'.input
                    /\ last'.code = 200
                    /\ last'.body = [jobId |-> id, status |-> "pending"]
       /\ (/\ last.op = "submit" /\ last.code = 200
           /\ Handled /\ last'.op = "get" /\ last'.id = last.body.jobId)
          => (/\ last'.code = 200
              /\ last'.body.id = last.body.jobId
              /\ last'.body.status = "pending")]_vars

\* C5 witness: a submit was accepted while the registry already held a job
\* that had been executed.
C5_Witness ==
    /\ last.op = "submit" /\ last.code = 200
    /\ jobs[last.id].status = "pending"
    /\ \E k \in DOMAIN jobs : k # last.id /\ jobs[k].status \in Terminal

\* the stored request has both an amount and a receiver
HasAmountAndReceiver(job) ==
    Truthy(job.request.amount) /\ Truthy(job.request.receiver)

\* C6 as stated: in every file, a job whose request has amount and receiver
\* and that reached a terminal status was stored as `executing` first.
C6_Original ==
    \A j \in DOMAIN jobs :
        (jobs[j].status \in Terminal /\ HasAmountAndReceiver(jobs[j]))
        => \E i \in 1..Len(hist[j]) : hist[j][i] = "executing"

\* C6 amended: in src/src/server.js (and part_000) every job that reached a
\* terminal status was stored as `executing` first; in src/server.js a job
\* is stored as `executing` exactly when its sendTransaction was issued, and
\* otherwise goes from pending straight to its terminal status.
C6_Amended ==
    \A j \in DOMAIN jobs :
        jobs[j].status \in Terminal
        => ((\E i \in 1..Len(hist[j]) : hist[j][i] = "executing")
            <=> (variant = "B" \/ sent[j] = 1))

\* C6 witness: both shapes have happened in src/server.js, one job finished
\* through `executing` and another finished without it.
C6_Witness ==
    /\ variant = "A"
    /\ \E j \in DOMAIN jobs : hist[j] = <<"pending", "executing", "completed">>
    /\ \E j \in DOMAIN jobs : hist[j] = <<"pending", "failed">>

\* C7: with real sending disabled, an execute request on a pending job leaves
\* it completed, answers 200 with status completed and simulated = true,
\* stores and returns no transaction hash, and issues no transaction.
C7_Simulated ==
    [][\A j \in DOMAIN jobs :
           (ExecuteArrives(j) /\ jobs[j].status = "pending" /\ ~SendEnabled)
           => (/\ jobs'[j].status = "completed"
               /\ StoredHash(jobs'[j]) = Null
               /\ last'.code = 200
               /\ last'.body.status = "completed"
               /\ last'.body.simulated = TRUE
               /\ DOMAIN last'.body \cap {"txHash", "evmTxHash"} = {}
               /\ sent' = sent /\ calls' = calls)]_vars

\* C7 witness: a simulated execute was answered 200 and nothing was sent.
C7_Witness ==
    /\ ~SendEnabled
    /\ last.op = "execute" /\ last.code = 200
    /\ jobs[last.id].status = "completed"
    /\ sent[last.id] = 0

\* the message that names what is missing from the configuration
ConfigMessages ==
    IF variant = "A"
    THEN {"EVM_RPC_URL or EVM_PRIVATE_KEY not configured"}
    ELSE IF env.EVM_RPC_URL = ""
    THEN {"EVM_RPC_URL is required when ENABLE_EVM_SEND=true"}
    ELSE {"EVM_PRIVATE_KEY is required when ENABLE_EVM_SEND=true"}

\* C8: with real sending enabled and the endpoint or the key not configured,
\* an execute request on a pending job leaves it failed with an errorMessage
\* naming the missing configuration, answers 500 and issues no transaction.
C8_ConfigMissing ==
    [][\A j \in DOMAIN jobs :
           (ExecuteArrives(j) /\ jobs[j].status = "pending"
               /\ SendEnabled /\ ~Configured)
           => (/\ jobs'[j].status = "failed"
               /\ jobs'[j].errorMessage \in ConfigMessages
               /\ last'.code = 500
               /\ sent' = sent /\ calls' = calls)]_vars

\* C8 witness: the key is missing and an execute ended 500 with the job failed.
C8_Witness ==
    /\ SendEnabled /\ env.EVM_PRIVATE_KEY = ""
    /\ last.op = "execute" /\ last.code = 500
    /\ jobs[last.id].status = "failed"

\* this step ends an await of the suspended invocation c
Resumes(c) ==
    Handled /\ last'.op = "execute" /\ calls'[c] # calls[c]

\* the await after which the handler completes the job
FinalAwait == IF variant = "A" THEN "wait" ELSE "sendTransaction"

\* the last await of the accepted execute at call c resolved
Succeeds(c) ==
    Resumes(c) /\ last'.phase = "resolved" /\ calls[c].pc = FinalAwait

\* an await of the accepted execute at call c rejected with last'.input
Rejects(c) == Resumes(c) /\ last'.phase = "rejected"

\* what is kept of an exception: its message or, when it has none, its name
MessageOrName(err) == IF err.message # "" THEN err.message ELSE err.name

\* C9 as stated: in real mode with the configuration present, an accepted
\* execute that has not ended leaves the job executing; when its last await
\* resolves the job is completed, the hash of its transaction is stored and
\* returned with simulated = false; when an exception is raised the job is
\* failed, the exception's message is stored as errorMessage and the answer
\* is 500.
C9_Original ==
    [][(SendEnabled /\ Configured) =>
        /\ \A c \in DOMAIN calls :
              Succeeds(c) =>
                LET j == calls[c].jobId
                IN  /\ jobs'[j].status = "completed"
                    /\ StoredHash(jobs'[j]) = TxHash(c)
                    /\ last'.code = 200
                    /\ last'.body.simulated = FALSE
                    /\ StoredHash(last'.body) = TxHash(c)
        /\ \A c \in DOMAIN calls :
              Rejects(c) =>
                LET j == calls[c].jobId
                IN  /\ jobs'[j].status = "failed"
                    /\ jobs'[j].errorMessage = last'.input.message
                    /\ last'.code = 500
        /\ \A j \in DOMAIN jobs :
              (Handled /\ last'.op = "execute" /\ last'.id = j
                  /\ jobs[j].status \in {"pending", "executing"}
                  /\ (last'.phase = "request" => jobs[j].status = "pending"))
              => \/ jobs'[j].status = "executing" /\ last'.code = 0
                 \/ jobs'[j].status = "completed" /\ last'.code = 200
                 \/ /\ jobs'[j].status = "failed" /\ last'.code = 500
                    /\ \E err \in Errors :
                           jobs'[j].errorMessage = err.message]_vars

\* C9: as above, except that what is stored as errorMessage is the
\* exception's message when it has one and otherwise String(err), the name
\* of the exception.
C9_Amended ==
    [][(SendEnabled /\ Configured) =>
        /\ \A c \in DOMAIN calls :
              Succeeds(c) =>
                LET j == calls[c].jobId
                IN  /\ jobs'[j].status = "completed"
                    /\ StoredHash(jobs'[j]) = TxHash(c)
                    /\ last'.code = 200
                    /\ last'.body.simulated = FALSE
                    /\ StoredHash(last'.body) = TxHash(c)
        /\ \A c \in DOMAIN calls :
              Rejects(c) =>
                LET j == calls[c].jobId
                IN  /\ jobs'[j].status = "failed"
                    /\ jobs'[j].errorMessage = MessageOrName(last'.input)
                    /\ last'.code = 500
        /\ \A j \in DOMAIN jobs :
              (Handled /\ last'.op = "execute" /\ last'.id = j
                  /\ jobs[j].status \in {"pending", "executing"}
                  /\ (last'.phase = "request" => jobs[j].status = "pending"))
              => \/ jobs'[j].status = "executing" /\ last'.code = 0
                 \/ jobs'[j].status = "completed" /\ last'.code = 200
                 \/ /\ jobs'[j].status = "failed" /\ last'.code = 500
                    /\ \E err \in Errors :
                           jobs'[j].errorMessage = MessageOrName(err)]_vars

\* C9 witness: both endings have happened, one job completed with its hash
\* stored and another failed on an exception without a message, whose name
\* is stored.
C9_Witness ==
    /\ SendEnabled /\ Configured
    /\ \E c \in DOMAIN calls :
           /\ jobs[calls[c].jobId].status = "completed"
           /\ StoredHash(jobs[calls[c].jobId]) = TxHash(c)
    /\ \E j \in DOMAIN jobs, err \in Errors :
           /\ err.message = ""
           /\ jobs[j].status = "failed" /\ jobs[j].errorMessage = err.name

\* C10: in src/server.js every job record has txHash only when completed and
\* not simulated, explorerUrl only with a txHash, errorMessage exactly when
\* failed, and when completed either simulated without a txHash or not
\* simulated with one.
C10_RecordShape ==
    variant = "A" =>
        \A j \in DOMAIN jobs :
            LET job == jobs[j]
            IN  /\ job.txHash # Null
                     => (job.status = "completed" /\ ~job.simulated)
                /\ job.explorerUrl # Null => job.txHash # Null
                /\ job.errorMessage # Null <=> job.status = "failed"
                /\ job.status = "completed"
                     => \/ job.simulated /\ job.txHash = Null
                        \/ ~job.simulated /\ job.txHash # Null

\* C10 witness: src/server.js holds a job completed with a txHash and an
\* explorerUrl, and a failed job with its errorMessage.
C10_Witness ==
    /\ variant = "A"
    /\ \E j \in DOMAIN jobs :
           /\ jobs[j].status = "completed"
           /\ jobs[j].txHash # Null /\ jobs[j].explorerUrl # Null
    /\ \E j \in DOMAIN jobs :
           jobs[j].status = "failed" /\ jobs[j].errorMessage # Null

\* C11: a GET or an execute request with an identifier under which no job
\* was created is answered 404 "Job not found", creates no job under that
\* identifier and leaves every job, every suspended invocation and the count
\* of transactions sent as they were.
C11_UnknownId404 ==
    [][\A id \in RequestIds \ DOMAIN jobs :
          (Handled /\ last'.op \in {"get", "execute"}
              /\ last'.phase = "request" /\ last'.id = id)
          => /\ last'.code = 404
             /\ last'.body = [error |-> "Job not found"]
             /\ jobs' = jobs
             /\ calls' = calls /\ sent' = sent /\ passed' = passed]_vars

\* C12: submit reports the first failing check in the order amount, receiver,
\* depositSignature: an amount that is no positive number gets
\* "Invalid amount" whatever the other fields are; a positive amount with no
\* receiver gets "Missing receiver" whatever depositSignature is; and
\* "Missing depositSignature from Solana side" is returned only when the
\* amount is a positive number and the receiver is present.
C12_CheckOrder ==
    [][SubmitArrives =>
        LET b == last'.input
        IN  /\ ~PositiveAmount(b.amount)
                 => (last'.code = 400
                       /\ last'.body = [error |-> "Invalid amount"])
            /\ (PositiveAmount(b.amount) /\ Missing(b.receiver))
                 => (last'.code = 400
                       /\ last'.body = [error |-> "Missing receiver"])
            /\ (last'.code = 400 /\ last'.body =
                   [error |-> "Missing depositSignature from Solana side"])
                 => (PositiveAmount(b.amount) /\ ~Missing(b.receiver)
                       /\ Missing(b.depositSignature))]_vars

\* C13: no job leaves the registry; a job keeps the id (its key), createdAt
\* and request it was created with; and a step changes a job's record only
\* if it belongs to an execute request on that same job.
C13_RegistryStable ==
    [][/\ DOMAIN jobs \subseteq DOMAIN jobs'
       /\ \A j \in DOMAIN jobs' : jobs'[j].id = j
       /\ \A j \in DOMAIN jobs :
             /\ jobs'[j].createdAt = jobs[j].createdAt
             /\ jobs'[j].request = jobs[j].request
             /\ jobs'[j] # jobs[j]
                  => (last'.op = "execute" /\ last'.id = j)]_vars

\* C13 witness: of two jobs, an execute request brought one to a terminal
\* status at a later time than its creation and the other is still pending.
C13_Witness ==
    /\ last.op = "execute"
    /\ \E j, k \in DOMAIN jobs :
           /\ j # k /\ last.id = j
           /\ jobs[j].status \in Terminal
           /\ jobs[j].updatedAt > jobs[j].createdAt
           /\ jobs[k].status = "pending"
           /\ jobs[k].updatedAt = jobs[k].createdAt

\* C14: every job in the registry has a stored request whose amount is
\* numeric and greater than zero.
C14_PositiveAmounts ==
    \A j \in DOMAIN jobs :
        LET n == ToNumber(jobs[j].request.amount)
        IN  ~n.nan /\ ~LeqZero(n)

\* C15: a GET of a job in the registry changes no record, no suspended
\* invocation and no count, is answered 200 with the record exactly as it is
\* stored; so two GETs of one id with nothing between them answer alike, the
\* second changing nothing at all.
C15_GetPure ==
    [][\A j \in DOMAIN jobs :
          /\ (Handled /\ last'.op = "get" /\ last'.id = j)
                => /\ jobs' = jobs /\ hist' = hist
                   /\ calls' = calls /\ sent' = sent /\ passed' = passed
                   /\ last'.code = 200
                   /\ last'.body = jobs[j]
          /\ (last.op = "get" /\ last.id = j /\ last.code = 200
                /\ last'.op = "get" /\ last'.id = j)
                => last'.body = last.body]_vars

\* C15 witness: a GET was answered with a record in status executing while
\* the execute invocation for that job is suspended at its await.
C15_Witness ==
    /\ last.op = "get" /\ last.code = 200
    /\ last.id \in DOMAIN jobs /\ last.body = jobs[last.id]
    /\ last.body.status = "executing"
    /\ \E c \in DOMAIN calls :
           calls[c].jobId = last.id /\ calls[c].pc = "sendTransaction"

\* the fields an updateJob call may be handed, for the check of its merge
SomeUpdates ==
    {[status |-> "executing"],
     [status |-> "failed", errorMessage |-> "timeout"]}

\* C17: updateJob on an existing id stores the given fields, keeps the
\* others and sets updatedAt to the current time, and on an unknown id
\* changes nothing; for every job createdAt <= updatedAt, updatedAt never
\* decreases, and a change of status comes with updatedAt set to the current
\* time.
C17_UpdateStamps ==
    [][/\ \A id \in RequestIds, u \in SomeUpdates :
             LET after == updateJob(jobs, id, u, now)
             IN  IF id \notin DOMAIN jobs THEN after = jobs
                 ELSE /\ DOMAIN after = DOMAIN jobs
                      /\ \A k \in DOMAIN jobs \ {id} : after[k] = jobs[k]
                      /\ after[id].updatedAt = now
                      /\ \A f \in DOMAIN u : after[id][f] = u[f]
                      /\ \A f \in DOMAIN jobs[id] \ (DOMAIN u \cup
                                                      {"updatedAt"}) :
                             after[id][f] = jobs[id][f]
       /\ \A j \in DOMAIN jobs' :
             jobs'[j].createdAt <= jobs'[j].updatedAt
       /\ \A j \in DOMAIN jobs :
             /\ jobs[j].updatedAt <= jobs'[j].updatedAt
             /\ jobs'[j].status # jobs[j].status
                  => jobs'[j].updatedAt = now']_vars

\* C18 as stated: in src/server.js a job whose sendTransaction returned ends
\* completed with the hash of that transaction, and is never failed with
\* txHash null.
C18_Original ==
    variant = "A" =>
        \A c \in DOMAIN calls :
            LET job == jobs[calls[c].jobId]
            IN  calls[c].tx # Null =>
                  /\ ~(job.status = "failed" /\ job.txHash = Null)
                  /\ calls[c].pc = "done"
                       => (job.status = "completed"
                             /\ job.txHash = calls[c].tx)

\* C18: in src/server.js, after sendTransaction returned, the job ends
\* completed with the hash of that transaction when tx.wait(1) returns, and
\* ends failed with txHash null and the exception's message (or its name,
\* when it has no message) when tx.wait(1) throws; when sendTransaction throws the job ends failed and nothing was
\* broadcast; a stored txHash is always the hash of the job's transaction.
C18_Amended ==
    [][variant = "A" =>
        /\ \A c \in DOMAIN calls :
              LET j == calls[c].jobId
              IN  /\ (Succeeds(c) /\ calls[c].pc = "wait")
                        => /\ calls[c].tx = TxHash(c)
                           /\ jobs'[j].status = "completed"
                           /\ jobs'[j].txHash = calls[c].tx
                  /\ (Rejects(c) /\ calls[c].pc = "wait")
                        => /\ calls[c].tx = TxHash(c)
                           /\ jobs'[j].status = "failed"
                           /\ jobs'[j].txHash = Null
                           /\ jobs'[j].errorMessage
                                = MessageOrName(last'.input)
                  /\ (Rejects(c) /\ calls[c].pc = "sendTransaction")
                        => /\ calls'[c].tx = Null
                           /\ jobs'[j].status = "failed"
                           /\ jobs'[j].txHash = Null
        /\ \A j \in DOMAIN jobs' :
              jobs'[j].txHash # Null
                 => \E c \in DOMAIN calls' :
                        /\ calls'[c].jobId = j
                        /\ calls'[c].tx = jobs'[j].txHash]_vars

\* C18 witness: src/server.js holds a failed job with txHash null whose
\* transaction was sent, and a completed job with the hash of its own.
C18_Witness ==
    /\ variant = "A"
    /\ \E c \in DOMAIN calls :
           /\ calls[c].tx # Null /\ calls[c].pc = "done"
           /\ jobs[calls[c].jobId].status = "failed"
           /\ jobs[calls[c].jobId].txHash = Null
    /\ \E c \in DOMAIN calls :
           /\ calls[c].pc = "done"
           /\ jobs[calls[c].jobId].status = "completed"
           /\ jobs[calls[c].jobId].txHash = calls[c].tx

\* C19: in src/server.js every stored request has an amount that is not
\* empty after String and trim, a receiver and a depositSignature, and is
\* never modified; no accepted execute is answered 400 (the two early-failure
\* branches) and no job gets either of their error messages.
C19_EarlyFailuresDead ==
    [][variant = "A" =>
        \A j \in DOMAIN jobs' :
            /\ AmountStr(jobs'[j].request) # <<>>
            /\ ~Missing(jobs'[j].request.receiver)
            /\ ~Missing(jobs'[j].request.depositSignature)
            /\ j \in DOMAIN jobs => jobs'[j].request = jobs[j].request
            /\ jobs'[j].errorMessage \notin
                   {"Missing amount in job payload",
                    "Missing receiver in job payload"}
            /\ (ExecuteArrives(j) /\ passed'[j] # passed[j])
                  => last'.code # 400]_vars

\* C19 witness: src/server.js accepted an execute on a job whose amount is
\* text that is no number, and the job failed with another message.
C19_Witness ==
    /\ variant = "A"
    /\ \E j \in DOMAIN jobs :
           /\ jobs[j].request.amount = Str(<<"a">>)
           /\ passed[j] = 1
           /\ jobs[j].status = "failed"
           /\ jobs[j].errorMessage \in {MessageOrName(e) : e \in Errors}

\* C16: a job is executing only through an accepted execute request; an
\* accepted execute never leaves the job pending, is never taken back and
\* never sends more than one response; and when every outbound call returns
\* or throws, the job of an accepted execute ends completed or failed with
\* exactly one response sent, so no job stays executing forever. (An
\* acceptance is never taken back, so "again and again, accepted implies
\* ended" says that every accepted execute is followed by the end.)
C16_Terminates ==
    /\ [](\A j \in DOMAIN jobs :
             /\ jobs[j].status = "executing" => passed[j] >= 1
             /\ passed[j] >= 1 => (jobs[j].status # "pending"
                                     /\ answered[j] <= 1))
    /\ [][\A j \in JobIds : passed[j] <= passed'[j]]_vars
    /\ \A j \in JobIds :
           []<>(passed[j] >= 1
                  => (j \in DOMAIN jobs /\ answered[j] = 1
                        /\ jobs[j].status \in Terminal))

\* C16 witness: both outcomes of an outbound call: a job that was executing
\* ended completed and another ended failed, each with one response sent.
C16_Witness ==
    /\ \E c \in DOMAIN calls :
           /\ calls[c].pc = "done"
           /\ jobs[calls[c].jobId].status = "completed"
           /\ answered[calls[c].jobId] = 1
    /\ \E c \in DOMAIN calls :
           /\ calls[c].pc = "done"
           /\ jobs[calls[c].jobId].status = "failed"
           /\ answered[calls[c].jobId] = 1

====
